---- MODULE Spec2Model ----
(***************************************************************************)
(* Bakuretsu review card generator (src/review_card_generator.py).         *)
(*                                                                         *)
(* Strings are sequences of one-character strings, so that split, strip,   *)
(* join, slicing and formatting are computed character by character.       *)
(* The card is the sequence of the draw operations applied to it, each     *)
(* with the arguments the code passes to the imaging library.              *)
(***************************************************************************)
EXTENDS Integers, Sequences, FiniteSets, TLC

VARIABLES
    pc,           \* position of generate() in its body
    review,       \* the ReviewData argument
    style,        \* the generator's CardStyle
    output_path,  \* the output_path argument
    cover_file,   \* environment: what ImageLoader.load finds behind the cover reference
    logo_file,    \* environment: the state of the platform's logo file
    card,         \* the canvas: NoCard, or the draw operations applied so far
    loc,          \* locals of generate() that pass from one step to the next
    returned,     \* what generate() handed to its caller
    saved,        \* the files written by generate()
    call,         \* the pure function applied in the function specifications
    branding_logo_path,  \* the generator's field of that name
    history,      \* what the earlier calls of generate() on this generator returned
    ui            \* the fields and widgets of ReviewCardApp

vars == <<pc, review, style, output_path, cover_file, logo_file, card, loc,
          returned, saved, call, branding_logo_path, history, ui>>

genVars == <<pc, review, style, output_path, cover_file, logo_file, card, loc,
             returned, saved, branding_logo_path, history>>

(***************************************************************************)
(* Bounds of the model.                                                    *)
(***************************************************************************)
MaxTextLen == 8
MaxWidth == 5
ScoreBits == 6
MaxDim == 9
MaxTitleWords == 3
MaxBodyWords == 9
MaxCalls == 2

(***************************************************************************)
(* Characters, strings and fonts.                                          *)
(***************************************************************************)
\* The characters str.split() and str.strip() treat as whitespace, and the
\* characters the texts of the model are made of.
Whitespace == {" ", "\t", "\n"}
Chars == {"a", " "}

RECURSIVE TextsUpTo(_)
TextsUpTo(n) ==
    IF n = 0 THEN {<<>>}
    ELSE LET shorter == TextsUpTo(n - 1)
         IN  shorter \cup {Append(t, c) : t \in {s \in shorter : Len(s) = n - 1}, c \in Chars}

\* A font is its advance width per character; font.getbbox(s)[2] is the
\* sum of the advances of s (no kerning, no bearing).
Fonts ==
    { ("a" :> 1 @@ " " :> 1),
      ("a" :> 2 @@ " " :> 1),
      ("a" :> 1 @@ " " :> 2) }

RECURSIVE getbbox(_, _)
getbbox(font, s) ==
    IF s = <<>> THEN 0 ELSE font[Head(s)] + getbbox(font, Tail(s))

\* str.split(): the maximal runs of non-whitespace characters, in order.
RECURSIVE SplitFrom(_, _, _, _)
SplitFrom(text, i, word, words) ==
    IF i > Len(text)
    THEN IF word = <<>> THEN words ELSE Append(words, word)
    ELSE IF text[i] \in Whitespace
         THEN SplitFrom(text, i + 1, <<>>,
                        IF word = <<>> THEN words ELSE Append(words, word))
         ELSE SplitFrom(text, i + 1, Append(word, text[i]), words)

split(text) == SplitFrom(text, 1, <<>>, <<>>)

\* ' '.join(words)
RECURSIVE join(_)
join(words) ==
    IF words = <<>> THEN <<>>
    ELSE IF Len(words) = 1 THEN words[1]
    ELSE words[1] \o <<" ">> \o join(Tail(words))

\* str.strip(): leading and trailing whitespace removed.
RECURSIVE lstrip(_)
lstrip(s) ==
    IF s # <<>> /\ Head(s) \in Whitespace THEN lstrip(Tail(s)) ELSE s

RECURSIVE rstrip(_)
rstrip(s) ==
    IF s # <<>> /\ s[Len(s)] \in Whitespace
    THEN rstrip(SubSeq(s, 1, Len(s) - 1))
    ELSE s

strip(s) == rstrip(lstrip(s))

(***************************************************************************)
(* ReviewCardGenerator._wrap_text                                          *)
(***************************************************************************)
\* The comparison of line 295 strict: a line as wide as max_width is broken.
FitsStrict(font, test_line, max_width) == getbbox(font, test_line) < max_width

\* The test of line 295 one pixel too generous.
FitsOffByOne(font, test_line, max_width) == getbbox(font, test_line) - 1 <= max_width

Fits(font, test_line, max_width) == getbbox(font, test_line) <= max_width

\* The flush of lines 298-299 and 302-303 forgotten: the candidate is dropped.
FlushDropsLine(lines, current_line) == lines

Flush(lines, current_line) ==
    IF current_line # <<>> THEN Append(lines, join(current_line)) ELSE lines

\* The loop of lines 292-300 from word i on; current_line is a list of words.
RECURSIVE WrapLoop(_, _, _, _, _, _)
WrapLoop(words, i, lines, current_line, font, max_width) ==
    IF i > Len(words)
    THEN Flush(lines, current_line)
    ELSE LET word == words[i]
             test_line == join(Append(current_line, word))
         IN  IF Fits(font, test_line, max_width)
             THEN WrapLoop(words, i + 1, lines, Append(current_line, word),
                           font, max_width)
             ELSE WrapLoop(words, i + 1, Flush(lines, current_line),
                           <<word>>, font, max_width)

_wrap_text(text, font, max_width) ==
    WrapLoop(split(text), 1, <<>>, <<>>, font, max_width)

(***************************************************************************)
(* Scores.  A score is a float; the model takes the floats that are whole  *)
(* multiples of 1/ScoreDen (all of them exact in binary floating point)    *)
(* and represents the score n/ScoreDen by the integer n.                   *)
(***************************************************************************)
ScoreDen == 2 ^ ScoreBits

Abs(n) == IF n < 0 THEN -n ELSE n

DigitChar == <<"0", "1", "2", "3", "4", "5", "6", "7", "8", "9">>

\* str(k) for a natural number k.
RECURSIVE NatText(_)
NatText(k) ==
    IF k < 10 THEN <<DigitChar[k + 1]>>
    ELSE Append(NatText(k \div 10), DigitChar[(k % 10) + 1])

\* int(score): truncation towards zero.
IntOf(score) ==
    IF score >= 0 THEN score \div ScoreDen ELSE -((-score) \div ScoreDen)

\* f"{k}" for an integer k.
IntText(k) == IF k < 0 THEN <<"-">> \o NatText(-k) ELSE NatText(k)

\* The tenths cut off instead of rounded.
TenthsTruncated(score) == (10 * score) \div ScoreDen

\* The number of tenths nearest to score, a tie going to the even one
\* (the float is exact, so the formatting rounds its exact value).
Tenths(score) ==
    LET q == (10 * score) \div ScoreDen
        r == (10 * score) % ScoreDen
    IN  IF 2 * r > ScoreDen \/ (2 * r = ScoreDen /\ q % 2 = 1) THEN q + 1 ELSE q

\* f"{score:.1f}"
Fixed1Text(score) ==
    LET t == Tenths(Abs(score))
    IN  (IF score < 0 THEN <<"-">> ELSE <<>>)
            \o NatText(t \div 10) \o <<".">> \o <<DigitChar[(t % 10) + 1]>>

Slash10 == <<"/", "1", "0">>

\* ReviewCardGenerator._format_score
_format_score(score) ==
    IF score = IntOf(score) * ScoreDen
    THEN IntText(IntOf(score)) \o Slash10
    ELSE Fixed1Text(score) \o Slash10

\* The colours of _get_score_color.
Green == <<34, 197, 94>>
Yellow == <<234, 179, 8>>
Orange == <<249, 115, 22>>
Red == <<239, 68, 68>>

\* The first comparison strict: a score of exactly 8 falls through.
GetScoreColorStrict(score) ==
    IF score > 8 * ScoreDen THEN Green
    ELSE IF score >= 6 * ScoreDen THEN Yellow
    ELSE IF score >= 4 * ScoreDen THEN Orange
    ELSE Red

\* ReviewCardGenerator._get_score_color
_get_score_color(score) ==
    IF score >= 8 * ScoreDen THEN Green
    ELSE IF score >= 6 * ScoreDen THEN Yellow
    ELSE IF score >= 4 * ScoreDen THEN Orange
    ELSE Red

(***************************************************************************)
(* Binary floating point.  cover.width / cover.height, the product and the *)
(* quotient of lines 237-245 are IEEE doubles: each operation returns the  *)
(* double nearest to the exact result (ties to the even mantissa).  A      *)
(* positive double is [m, e], standing for m * 2^e with 2^52 <= m < 2^53.  *)
(* A 53-bit mantissa does not fit a 32-bit integer, so a                   *)
(* natural number is held as three limbs <<l0, l1, l2>> = l0 + l1 * 2^20   *)
(* + l2 * 2^40.                                                            *)
(***************************************************************************)
Limb == 2 ^ 20

BigOf(n) == <<n % Limb, n \div Limb, 0>>

BigCarry(x) ==
    LET c1 == x[2] + x[1] \div Limb
    IN  <<x[1] % Limb, c1 % Limb, x[3] + c1 \div Limb>>

\* x * n for a small natural n.
BigMul(x, n) == BigCarry(<<x[1] * n, x[2] * n, x[3] * n>>)

BigInc(x) == BigCarry(<<x[1] + 1, x[2], x[3]>>)

BigLess(x, y) ==
    \/ x[3] < y[3]
    \/ x[3] = y[3] /\ x[2] < y[2]
    \/ x[3] = y[3] /\ x[2] = y[2] /\ x[1] < y[1]

\* x - y for x >= y.
BigSub(x, y) ==
    LET b1 == IF x[1] < y[1] THEN 1 ELSE 0
        d1 == x[1] - y[1] + b1 * Limb
        b2 == IF x[2] - b1 < y[2] THEN 1 ELSE 0
        d2 == x[2] - b1 - y[2] + b2 * Limb
    IN  <<d1, d2, x[3] - b2 - y[3]>>

\* x \div 2
BigHalf(x) ==
    <<x[1] \div 2 + (x[2] % 2) * (Limb \div 2),
      x[2] \div 2 + (x[3] % 2) * (Limb \div 2),
      x[3] \div 2>>

BigOdd(x) == x[1] % 2 = 1

BigZero == <<0, 0, 0>>
Two52 == <<0, 0, 2 ^ 12>>
Two53 == <<0, 0, 2 ^ 13>>

\* The double nearest to m * 2^e plus a fraction of one unit of m, where
\* Two52 <= m < Two53 and the fraction is "low" (below one half), "half"
\* or "high" (above one half), or "zero".
FlRound(m, e, fraction) ==
    LET up == fraction = "high" \/ (fraction = "half" /\ BigOdd(m))
        r == IF up THEN BigInc(m) ELSE m
    IN  IF r = Two53 THEN [m |-> Two52, e |-> e + 1] ELSE [m |-> r, e |-> e]

\* What is left of a fraction once one more bit is shifted out above it.
Shifted(bit, fraction) ==
    IF bit = 1
    THEN IF fraction = "zero" THEN "half" ELSE "high"
    ELSE IF fraction = "zero" THEN "zero" ELSE "low"

\* An integer x >= Two52 with a fraction, brought to 53 bits and rounded.
RECURSIVE FlNormalize(_, _, _)
FlNormalize(x, e, fraction) ==
    IF BigLess(x, Two53)
    THEN FlRound(x, e, fraction)
    ELSE FlNormalize(BigHalf(x), e + 1, Shifted(x[1] % 2, fraction))

\* The fraction r / d as "zero", "low", "half" or "high" (r < d, limbs).
FractionOf(r, d) ==
    LET twice == BigMul(r, 2)
    IN  IF r = BigZero THEN "zero"
        ELSE IF BigLess(twice, d) THEN "low"
        ELSE IF twice = d THEN "half"
        ELSE "high"

\* The quotient q + r / d (r < d), times 2^e, extended four bits at a time
\* until q has at least 53 bits, then rounded to 53.
RECURSIVE FlDivide(_, _, _, _)
FlDivide(q, r, d, e) ==
    IF ~BigLess(q, Two52)
    THEN FlNormalize(q, e, FractionOf(r, d))
    ELSE LET r16 == BigMul(r, 16)
             digit == CHOOSE k \in 0..15 :
                          /\ ~BigLess(r16, BigMul(d, k))
                          /\ BigLess(r16, BigMul(d, k + 1))
         IN  FlDivide(BigCarry(<<q[1] * 16 + digit, q[2] * 16, q[3] * 16>>),
                      BigSub(r16, BigMul(d, digit)), d, e - 4)

\* float(a) / float(b) for naturals a >= 1, b >= 1.
FlDivInts(a, b) == FlDivide(BigOf(a \div b), BigOf(a % b), BigOf(b), 0)

\* float(n) / y for a natural n >= 1 and a double y: n / (m * 2^e).
FlDivIntBy(n, y) == FlDivide(BigZero, BigOf(n), y.m, -y.e)

\* float(n) * y for a natural n >= 1 and a double y: the exact product
\* n * m has at least 53 bits and is rounded back to 53.
FlMulInt(n, y) == FlNormalize(BigMul(y.m, n), y.e, "zero")

\* x > y for doubles.
FlGreater(x, y) == x.e > y.e \/ (x.e = y.e /\ BigLess(y.m, x.m))

\* x \div 2^k for 0 <= k < 20.
BigShiftBits(x, k) ==
    LET p == 2 ^ k
        up == Limb \div p
    IN  <<x[1] \div p + (x[2] % p) * up, x[2] \div p + (x[3] % p) * up, x[3] \div p>>

\* x \div 2^k for a three-limb x below 2^60.
BigShiftRight(x, k) ==
    IF k >= 60 THEN BigZero
    ELSE IF k >= 40 THEN BigShiftBits(<<x[3], 0, 0>>, k - 40)
    ELSE IF k >= 20 THEN BigShiftBits(<<x[2], x[3], 0>>, k - 20)
    ELSE BigShiftBits(x, k)

\* int(x) for a double x >= 0 below 2^40: the bits right of the point dropped.
FlTrunc(x) ==
    LET i == BigShiftRight(x.m, -x.e)
    IN  i[1] + i[2] * Limb

(***************************************************************************)
(* ReviewCardGenerator._create_cover_with_rounded_corners.  An image is    *)
(* its size [width, height]; the result records the resize, the crop box   *)
(* and the tile that is returned.                                          *)
(***************************************************************************)
\* The crop box of line 252 taken for (left, top, width, height).
CropBoxAsSize(left, top, target_width, target_height) ==
    <<left, top, target_width, target_height>>

\* The crop box of line 252: (left, upper, right, lower).
CropBox(left, top, target_width, target_height) ==
    <<left, top, left + target_width, top + target_height>>

_create_cover_with_rounded_corners(cover, target_width, target_height, radius) ==
    LET cover_ratio == FlDivInts(cover.width, cover.height)
        target_ratio == FlDivInts(target_width, target_height)
        wider == FlGreater(cover_ratio, target_ratio)
        new_height == IF wider THEN target_height
                      ELSE FlTrunc(FlDivIntBy(target_width, cover_ratio))
        new_width == IF wider THEN FlTrunc(FlMulInt(target_height, cover_ratio))
                     ELSE target_width
        left == (new_width - target_width) \div 2
        top == (new_height - target_height) \div 2
        box == CropBox(left, top, target_width, target_height)
    IN  IF new_width <= 0 \/ new_height <= 0
        THEN \* Image.resize refuses an empty size
             [raised |-> TRUE, resized |-> <<new_width, new_height>>,
              box |-> <<0, 0, 0, 0>>, cropped |-> <<0, 0>>, size |-> <<0, 0>>,
              mask |-> <<0, 0, 0, 0>>, radius |-> radius]
        ELSE [raised |-> FALSE,
              resized |-> <<new_width, new_height>>,
              box |-> box,
              \* Image.crop returns an image of the size of its box
              cropped |-> <<box[3] - box[1], box[4] - box[2]>>,
              \* Image.new('RGBA', (target_width, target_height))
              size |-> <<target_width, target_height>>,
              mask |-> <<0, 0, target_width - 1, target_height - 1>>,
              radius |-> radius]

(***************************************************************************)
(* Values that stand for "nothing".                                        *)
(***************************************************************************)
None == "None"
NoCard == <<>>
NoCall == [fn |-> "none"]
NoUI == [state |-> "none"]

IdleGen ==
    /\ pc = "idle"
    /\ review = None
    /\ style = None
    /\ output_path = None
    /\ cover_file = None
    /\ logo_file = None
    /\ card = NoCard
    /\ loc = None
    /\ returned = None
    /\ saved = {}
    /\ branding_logo_path = None
    /\ history = <<>>

(***************************************************************************)
(* ReviewData and its validation.                                          *)
(***************************************************************************)
ValueError(msg) == [kind |-> "raise", exc |-> "ValueError", msg |-> msg]
Valid == [kind |-> "ok"]

\* The checks of the texts without str.strip(): blank texts pass.
ValidateNoStrip(r) ==
    IF r.title = <<>> THEN ValueError("Title cannot be empty")
    ELSE IF ~(0 <= r.score /\ r.score <= 10 * ScoreDen)
    THEN ValueError("Score must be between 0 and 10")
    ELSE IF r.review_text = <<>> THEN ValueError("Review text cannot be empty")
    ELSE Valid

\* ReviewData.validate
validate(r) ==
    IF r.title = <<>> \/ strip(r.title) = <<>>
    THEN ValueError("Title cannot be empty")
    ELSE IF ~(0 <= r.score /\ r.score <= 10 * ScoreDen)
    THEN ValueError("Score must be between 0 and 10")
    ELSE IF r.review_text = <<>> \/ strip(r.review_text) = <<>>
    THEN ValueError("Review text cannot be empty")
    ELSE Valid

(***************************************************************************)
(* ImageLoader.load of a file reference: the file behind it is missing,    *)
(* is no image, or is an image of some size.                               *)
(***************************************************************************)
ImageLoader_load(file) ==
    IF ~file.exists
    THEN [kind |-> "raise", exc |-> "FileNotFoundError", image |-> [width |-> 0, height |-> 0]]
    ELSE IF ~file.decodable
    THEN [kind |-> "raise", exc |-> "UnidentifiedImageError", image |-> [width |-> 0, height |-> 0]]
    ELSE [kind |-> "ok", exc |-> "", image |-> [width |-> file.width, height |-> file.height]]

(***************************************************************************)
(* PlatformBranding                                                        *)
(***************************************************************************)
Backloggd == <<"B", "a", "c", "k", "l", "o", "g", "g", "d">>
Letterboxd == <<"L", "e", "t", "t", "e", "r", "b", "o", "x", "d">>

PlatformBranding(platform, username) ==
    IF platform = "backloggd"
    THEN [name |-> Backloggd, accent_color |-> <<139, 92, 246>>, username |-> username]
    ELSE [name |-> Letterboxd, accent_color |-> <<255, 128, 0>>, username |-> username]

(***************************************************************************)
(* The layout of generate(), lines 385-394.                                *)
(***************************************************************************)
\* int(cover_width * 1.5): the product is exact in binary floating point.
cover_height(st) == (3 * st.cover_width) \div 2
cover_x(st) == st.padding
cover_y(st) == st.padding
text_x(st) == cover_x(st) + st.cover_width + st.padding
text_width(st) == st.width - text_x(st) - st.padding

\* The pixels a shape drawn with the bounding box <<x0, y0, x1, y1>> spans:
\* both corners lie inside the shape, which is why a shape that fills an
\* image of size (w, h) is drawn to (w - 1, h - 1) in lines 222 and 258.
BoxSize(box) == <<box[3] - box[1] + 1, box[4] - box[2] + 1>>

\* The card drawn on the canvas of the render before, when there was one.
RoundedRectangleOnKeptCanvas(size, radius, fill) ==
    (IF history # <<>> THEN history[Len(history)].card
     ELSE << [op |-> "new", part |-> "card", size |-> size] >>)
    \o << [op |-> "rounded_rectangle", part |-> "card",
           box |-> <<0, 0, size[1] - 1, size[2] - 1>>, radius |-> radius,
           fill |-> fill] >>

\* ReviewCardGenerator._create_rounded_rectangle: a new image and one
\* rounded rectangle that fills it.
_create_rounded_rectangle(size, radius, fill) ==
    << [op |-> "new", part |-> "card", size |-> size],
       [op |-> "rounded_rectangle", part |-> "card",
        box |-> <<0, 0, size[1] - 1, size[2] - 1>>, radius |-> radius, fill |-> fill] >>

NoCoverText == <<"N", "o", " ", "C", "o", "v", "e", "r">>

\* The placeholder of lines 405-418 and of lines 420-433.
Placeholder(st) ==
    << [op |-> "rounded_rectangle", part |-> "cover",
        box |-> <<cover_x(st), cover_y(st),
                  cover_x(st) + st.cover_width, cover_y(st) + cover_height(st)>>,
        radius |-> 15, fill |-> <<40, 40, 50, 255>>],
       [op |-> "text", part |-> "cover",
        at |-> <<cover_x(st) + st.cover_width \div 2,
                 cover_y(st) + cover_height(st) \div 2>>,
        text |-> NoCoverText, font |-> "review_font",
        fill |-> st.secondary_color, anchor |-> "mm"] >>

\* The exception classes the loads and the resize of the model raise.
Exceptions == {"FileNotFoundError", "UnidentifiedImageError", "ValueError"}

\* An except clause for FileNotFoundError alone.
CaughtFileNotFound(exc) == exc = "FileNotFoundError"

\* "except Exception" of lines 404 and 338: every class above derives from it.
Caught(exc) == exc \in Exceptions

\* The exception the try body of lines 399-403 raises, "" when it raises none.
CoverException(st, file) ==
    LET loaded == ImageLoader_load(file)
        tile == _create_cover_with_rounded_corners(
                    loaded.image, st.cover_width, cover_height(st), 15)
    IN  IF loaded.kind = "raise" THEN loaded.exc
        ELSE IF tile.raised THEN "ValueError"
        ELSE ""

\* Lines 396-433: the cover, or the placeholder.
DrawCoverOps(r, st, file) ==
    IF r.cover_image # None /\ CoverException(st, file) = ""
    THEN LET tile == _create_cover_with_rounded_corners(
                         ImageLoader_load(file).image, st.cover_width,
                         cover_height(st), 15)
         IN  << [op |-> "paste", part |-> "cover", image |-> "cover",
                 at |-> <<cover_x(st), cover_y(st)>>, size |-> tile.size] >>
    ELSE Placeholder(st)

\* An exception of the try body that the except clause of line 404 lets through.
CoverEscapes(r, st, file) ==
    /\ r.cover_image # None
    /\ CoverException(st, file) # ""
    /\ ~Caught(CoverException(st, file))

\* The lines drawn one under the other from y on, advance apart.
RECURSIVE TextOps(_, _, _, _, _, _, _)
TextOps(lines, i, x, y, advance, part, fontfill) ==
    IF i > Len(lines) THEN <<>>
    ELSE << [op |-> "text", part |-> part, at |-> <<x, y>>, text |-> lines[i],
             font |-> fontfill[1], fill |-> fontfill[2], anchor |-> "la"] >>
         \o TextOps(lines, i + 1, x, y + advance, advance, part, fontfill)

\* A slice that cuts nothing off.
WholeList(seq, n) == seq

\* seq[:n]
FirstN(seq, n) == SubSeq(seq, 1, IF Len(seq) < n THEN Len(seq) ELSE n)

max_review_lines == 8

Dots == <<".", ".", ".">>

\* The ellipsis put after the whole line.
EllipsisAppended(line) == line \o Dots

\* line[:-3] + "..." if len(line) > 3 else "..."
Ellipsis(line) ==
    IF Len(line) > 3 THEN SubSeq(line, 1, Len(line) - 3) \o Dots ELSE Dots

\* The test of line 463 one line late: no drawn line has that index.
TruncatedOffByOne(i, review_lines) ==
    i = max_review_lines /\ Len(review_lines) > max_review_lines

\* The test of line 463 for the line of index i (from 0).
Truncated(i, review_lines) ==
    i = max_review_lines - 1 /\ Len(review_lines) > max_review_lines

\* The lines of lines 462-464: the first max_review_lines, the last of them
\* with the ellipsis when lines were left out.
ReviewLinesDrawn(review_lines) ==
    LET shown == FirstN(review_lines, max_review_lines)
    IN  [i \in 1..Len(shown) |->
            IF Truncated(i - 1, review_lines) THEN Ellipsis(shown[i]) ELSE shown[i]]

logo_size == 32

\* The exception the try body of lines 333-337 raises, "" when it raises none:
\* Image.open of a file that is there and is no image.
LogoException(logo) ==
    IF logo.exists /\ ~logo.decodable THEN "UnidentifiedImageError" ELSE ""

\* An exception of the try body that the except clause of line 338 lets through.
LogoEscapes(platform, logo) ==
    /\ platform # "none"
    /\ LogoException(logo) # ""
    /\ ~Caught(LogoException(logo))

\* A badge that shows the generator's branding logo, once it is set, in the
\* place of the platform's name.
DrawPlatformBrandingWithGeneratorLogo(st, platform, username, position, logo) ==
    IF branding_logo_path # None
    THEN << [op |-> "paste", part |-> "platform", image |-> branding_logo_path,
             at |-> position, size |-> <<logo_size, logo_size>>] >>
    ELSE << [op |-> "text", part |-> "platform", at |-> position,
             text |-> PlatformBranding(platform, username).name,
             font |-> "platform_font", fill |-> st.secondary_color, anchor |-> "lm"] >>

\* ReviewCardGenerator._draw_platform_branding at position <<x, y>>.
_draw_platform_branding(st, platform, username, position, logo) ==
    IF platform = "none" THEN <<>>
    ELSE
    LET branding == PlatformBranding(platform, username)
        x == position[1]
        y == position[2]
        \* lines 332-344: the logo, the fallback circle, or neither
        mark == IF logo.exists
                THEN IF LogoException(logo) = ""
                     THEN << [op |-> "paste", part |-> "platform", image |-> "logo",
                              at |-> <<x, y>>, size |-> <<logo_size, logo_size>>] >>
                     ELSE << [op |-> "ellipse", part |-> "platform",
                              box |-> <<x, y, x + logo_size, y + logo_size>>,
                              fill |-> branding.accent_color] >>
                ELSE <<>>
        \* lines 337 and 344: x moves on after a logo or a circle only
        x_text == IF logo.exists THEN x + logo_size + 10 ELSE x
        platform_text == IF username # <<>>
                         THEN branding.name \o <<" ", "@">> \o username
                         ELSE branding.name
    IN  mark \o << [op |-> "text", part |-> "platform",
                    at |-> <<x_text, y + logo_size \div 2>>, text |-> platform_text,
                    font |-> "platform_font", fill |-> st.secondary_color,
                    anchor |-> "lm"] >>

(***************************************************************************)
(* The inputs of generate(): texts of equal words, scores inside and       *)
(* outside [0,10], a cover reference or none, a platform, and the files    *)
(* the references stand for.                                               *)
(***************************************************************************)
RECURSIVE Repeat(_, _)
Repeat(c, n) == IF n = 0 THEN <<>> ELSE <<c>> \o Repeat(c, n - 1)

\* k words of len letters each, single spaces between them.
RECURSIVE WordsText(_, _)
WordsText(k, len) ==
    IF k = 0 THEN <<>>
    ELSE IF k = 1 THEN Repeat("a", len)
    ELSE Repeat("a", len) \o <<" ">> \o WordsText(k - 1, len)

Titles == {WordsText(k, 2) : k \in 0..MaxTitleWords} \cup {<<" ">>}

Bodies == {WordsText(k, len) : k \in 0..MaxBodyWords, len \in 2..4} \cup {<<" ", " ">>}

Scores == {-ScoreDen, 4 * ScoreDen - 1, 19 * (ScoreDen \div 2), 10 * ScoreDen + 1}

CoverRef == <<"c", "o", "v", "e", "r", ".", "p", "n", "g">>

MissingFile == [exists |-> FALSE, decodable |-> FALSE, width |-> 0, height |-> 0]
BrokenFile == [exists |-> TRUE, decodable |-> FALSE, width |-> 0, height |-> 0]
ImageFile(w, h) == [exists |-> TRUE, decodable |-> TRUE, width |-> w, height |-> h]

\* A cover reference with the file behind it.
Covers ==
    { <<None, MissingFile>>, <<CoverRef, MissingFile>>, <<CoverRef, BrokenFile>>,
      <<CoverRef, ImageFile(4, 3)>> }

\* A platform with a user name and the platform's logo file.
Platforms ==
    { <<"none", <<>>, MissingFile>> }
    \cup ({"backloggd", "letterboxd"} \X {<<>>, <<"u">>}
             \X {MissingFile, BrokenFile, ImageFile(64, 64)})

OutputPaths == {None, "out.png"}

\* A CardStyle small enough for the texts of the model to wrap: a card of
\* 13 x 20 with a text column 5 wide.
\* title_ascent is the ascent of the title font (ImageFont.getmetrics), here
\* the whole font size, the most a font has.
Styles ==
    { [width |-> 13, height |-> 20, background_color |-> <<18, 18, 24, 255>>,
       primary_color |-> <<255, 255, 255>>, secondary_color |-> <<156, 163, 175>>,
       accent_color |-> <<236, 72, 153>>, title_font_size |-> 2,
       score_font_size |-> 3, review_font_size |-> 1, platform_font_size |-> 1,
       padding |-> 1, cover_width |-> 5, corner_radius |-> 2,
       title_font |-> ("a" :> 2 @@ " " :> 1), title_ascent |-> 2,
       review_font |-> ("a" :> 1 @@ " " :> 1)] }

NoLocals == [title_y |-> 0, score_y |-> 0, review_y |-> 0,
             title_lines |-> <<>>, review_lines |-> <<>>]

(***************************************************************************)
(* generate(review, output_path), one action per section of its body.      *)
(* pc names the section completed last; Order lists the sections as the    *)
(* body has them, lines 375, 378, 397, 436, 448, 459, 474 and 483.         *)
(***************************************************************************)
\* The body with the score drawn before the title.
OrderScoreFirst ==
    <<"start", "validated", "card", "cover", "score", "title", "review",
      "platform", "done">>

Order ==
    <<"start", "validated", "card", "cover", "title", "score", "review",
      "platform", "done">>

\* The place of a section in the body.
Rank(section) == CHOOSE i \in 1..Len(Order) : Order[i] = section

\* The section the body has just before this one.
Before(section) == Order[Rank(section) - 1]

Init ==
    /\ pc = "start"
    /\ \E title \in Titles, score \in Scores, body \in Bodies, cover \in Covers,
          platform \in Platforms :
         /\ review = [title |-> title, score |-> score, review_text |-> body,
                      content_type |-> "game", cover_image |-> cover[1],
                      platform |-> platform[1], platform_username |-> platform[2]]
         /\ cover_file = cover[2]
         /\ logo_file = platform[3]
    /\ style \in Styles
    /\ output_path \in OutputPaths
    /\ card = NoCard
    /\ loc = NoLocals
    /\ returned = [kind |-> "none"]
    /\ saved = {}
    /\ call = NoCall
    /\ branding_logo_path = None
    /\ history = <<>>
    /\ ui = NoUI

\* Line 375: review.validate() passes.
Validate ==
    /\ pc = Before("validated")
    /\ validate(review).kind = "ok"
    /\ pc' = "validated"
    /\ UNCHANGED <<review, style, output_path, cover_file, logo_file, card, loc,
                   returned, saved, call>>
    /\ UNCHANGED <<branding_logo_path, history, ui>>

\* Line 375: review.validate() raises, and generate() with it.
ValidateRaises ==
    /\ pc = Before("validated")
    /\ validate(review).kind = "raise"
    /\ pc' = "raised"
    /\ returned' = validate(review)
    /\ UNCHANGED <<review, style, output_path, cover_file, logo_file, card, loc,
                   saved, call>>
    /\ UNCHANGED <<branding_logo_path, history, ui>>

\* Lines 377-383: the base card with rounded corners.
CreateCard ==
    /\ pc = Before("card")
    /\ card' = _create_rounded_rectangle(<<style.width, style.height>>,
                                         style.corner_radius, style.background_color)
    /\ pc' = "card"
    /\ UNCHANGED <<review, style, output_path, cover_file, logo_file, loc,
                   returned, saved, call>>
    /\ UNCHANGED <<branding_logo_path, history, ui>>

\* Lines 396-433: the cover image or its placeholder; an exception the
\* except clause lets through ends generate().
DrawCover ==
    /\ pc = Before("cover")
    /\ LET escapes == CoverEscapes(review, style, cover_file)
       IN  /\ pc' = IF escapes THEN "raised" ELSE "cover"
           /\ returned' = IF escapes
                          THEN [kind |-> "raise", msg |-> "",
                                exc |-> CoverException(style, cover_file)]
                          ELSE returned
           /\ card' = IF escapes THEN card
                      ELSE card \o DrawCoverOps(review, style, cover_file)
    /\ UNCHANGED <<review, style, output_path, cover_file, logo_file, loc, saved, call>>
    /\ UNCHANGED <<branding_logo_path, history, ui>>

\* Lines 435-445: at most two lines of the title.
DrawTitle ==
    /\ pc = Before("title")
    /\ LET title_lines == _wrap_text(review.title, style.title_font, text_width(style))
           drawn == FirstN(title_lines, 2)
           advance == style.title_font_size + 5
       IN  /\ card' = card \o TextOps(drawn, 1, text_x(style), style.padding, advance,
                                      "title", <<"title_font", style.primary_color>>)
           /\ loc' = [loc EXCEPT !.title_lines = title_lines,
                                 !.title_y = style.padding + Len(drawn) * advance]
    /\ pc' = "title"
    /\ UNCHANGED <<review, style, output_path, cover_file, logo_file,
                   returned, saved, call>>
    /\ UNCHANGED <<branding_logo_path, history, ui>>

\* The score put where the next title line would be.
ScoreYAtTitleY(title_y) == title_y

\* Line 448: score_y = title_y + 15
score_y(title_y) == title_y + 15

\* Lines 447-456: the score label in the colour of its bucket.
DrawScore ==
    /\ pc = Before("score")
    /\ LET y == score_y(loc.title_y)
       IN  /\ card' = Append(card,
                        [op |-> "text", part |-> "score",
                         at |-> <<text_x(style), y>>,
                         text |-> _format_score(review.score), font |-> "score_font",
                         fill |-> _get_score_color(review.score), anchor |-> "la"])
           /\ loc' = [loc EXCEPT !.score_y = y]
    /\ pc' = "score"
    /\ UNCHANGED <<review, style, output_path, cover_file, logo_file,
                   returned, saved, call>>
    /\ UNCHANGED <<branding_logo_path, history, ui>>

\* Lines 458-471: at most max_review_lines lines of the review text.
DrawReview ==
    /\ pc = Before("review")
    /\ LET review_y == loc.score_y + style.score_font_size + 20
           review_lines == _wrap_text(review.review_text, style.review_font,
                                      text_width(style))
           drawn == ReviewLinesDrawn(review_lines)
           advance == style.review_font_size + 8
       IN  /\ card' = card \o TextOps(drawn, 1, text_x(style), review_y, advance,
                                      "review", <<"review_font", style.secondary_color>>)
           /\ loc' = [loc EXCEPT !.review_lines = review_lines,
                                 !.review_y = review_y + Len(drawn) * advance]
    /\ pc' = "review"
    /\ UNCHANGED <<review, style, output_path, cover_file, logo_file,
                   returned, saved, call>>
    /\ UNCHANGED <<branding_logo_path, history, ui>>

\* Lines 473-480: the platform badge, bottom left; an exception the except
\* clause of the badge lets through ends generate().
DrawPlatform ==
    /\ pc = Before("platform")
    /\ LET escapes == LogoEscapes(review.platform, logo_file)
           platform_y == style.height - style.padding - 32
       IN  /\ pc' = IF escapes THEN "raised" ELSE "platform"
           /\ returned' = IF escapes
                          THEN [kind |-> "raise", msg |-> "",
                                exc |-> LogoException(logo_file)]
                          ELSE returned
           /\ card' = IF escapes \/ review.platform = "none" THEN card
                      ELSE card \o _draw_platform_branding(style, review.platform,
                                       review.platform_username,
                                       <<style.padding, platform_y>>, logo_file)
    /\ UNCHANGED <<review, style, output_path, cover_file, logo_file, loc, saved, call>>
    /\ UNCHANGED <<branding_logo_path, history, ui>>

\* Lines 483-489: the card saved when a path is given, and returned.  The
\* write itself is the output sink's and is taken to succeed.
SaveAndReturn ==
    /\ pc = Before("done")
    /\ saved' = IF output_path # None THEN saved \cup {output_path} ELSE saved
    /\ returned' = [kind |-> "image", card |-> card]
    /\ pc' = "done"
    /\ UNCHANGED <<review, style, output_path, cover_file, logo_file, card, loc, call>>
    /\ UNCHANGED <<branding_logo_path, history, ui>>

\* ReviewCardGenerator.set_branding_logo, called between two renders.
SetBrandingLogo ==
    /\ pc = "done"
    /\ branding_logo_path = None
    /\ branding_logo_path' = "bakuretsu.png"
    /\ UNCHANGED <<pc, review, style, output_path, cover_file, logo_file, card, loc,
                   returned, saved, call, history, ui>>

\* The caller renders the same review again on the same generator: what the
\* call before returned is kept, and the body starts anew.
CallAgain ==
    /\ pc = "done"
    /\ Len(history) < MaxCalls - 1
    /\ history' = Append(history, returned)
    /\ pc' = "start"
    /\ card' = NoCard
    /\ loc' = NoLocals
    /\ returned' = [kind |-> "none"]
    /\ UNCHANGED <<review, style, output_path, cover_file, logo_file, saved, call,
                   branding_logo_path, ui>>

Next ==
    \/ Validate
    \/ ValidateRaises
    \/ CreateCard
    \/ DrawCover
    \/ DrawTitle
    \/ DrawScore
    \/ DrawReview
    \/ DrawPlatform
    \/ SaveAndReturn

Spec == Init /\ [][Next]_vars

(***************************************************************************)
(* One generator used for several renders of one review, with              *)
(* set_branding_logo called between them or not.                           *)
(***************************************************************************)
InitRepeat ==
    /\ Init
    /\ review.title \in {<<>>, WordsText(1, 2), WordsText(MaxTitleWords, 2)}
    /\ review.review_text \in {WordsText(1, 2), WordsText(MaxBodyWords, 3)}

NextRepeat ==
    \/ Next
    \/ SetBrandingLogo
    \/ CallAgain

SpecRepeat == InitRepeat /\ [][NextRepeat]_vars

(***************************************************************************)
(* Properties of generate().                                               *)
(***************************************************************************)
EndsWith(s, suffix) ==
    Len(s) >= Len(suffix) /\ SubSeq(s, Len(s) - Len(suffix) + 1, Len(s)) = suffix

PartOps(part) == SelectSeq(card, LAMBDA o : o.part = part)

Blank(s) == \A i \in 1..Len(s) : s[i] \in Whitespace

ScoreInRange == 0 <= review.score /\ review.score <= 10 * ScoreDen

InvalidInput ==
    Blank(review.title) \/ Blank(review.review_text) \/ ~ScoreInRange

CoverUnavailable == ~cover_file.exists \/ ~cover_file.decodable

LogoUnavailable == ~logo_file.exists \/ ~logo_file.decodable

\* C3: with a blank title, a blank review text or a score outside [0,10],
\* generate() raises a ValueError: it does so as its first step, with no card
\* allocated, nothing drawn, nothing saved and no image returned.
C3_ValidationFirst ==
    InvalidInput =>
        /\ pc \in {"start", "raised"}
        /\ card = NoCard
        /\ saved = {}
        /\ returned.kind # "image"
        /\ pc = "start" => ENABLED ValidateRaises /\ ~ENABLED Validate
        /\ pc = "raised" => returned.kind = "raise" /\ returned.exc = "ValueError"

C3_Witness ==
    /\ pc = "raised"
    /\ review.title = <<" ">>
    /\ ScoreInRange
    /\ ~Blank(review.review_text)

\* C6: when the review text wraps to nine lines or more, exactly eight
\* lines of it are drawn and the last of them ends in "...".
C6_BodyTruncated ==
    LET wrapped == _wrap_text(review.review_text, style.review_font, text_width(style))
        drawn == PartOps("review")
    IN  pc \in {"review", "platform", "done"} /\ Len(wrapped) >= 9 =>
            /\ Len(drawn) = 8
            /\ EndsWith(drawn[Len(drawn)].text, Dots)

C6_Witness ==
    /\ pc = "done"
    /\ Len(_wrap_text(review.review_text, style.review_font, text_width(style))) >= 9
    /\ Len(PartOps("review")) = 8

\* C7: with a platform chosen and its logo missing or undecodable, the badge
\* has a circle of the platform's accent colour on the logo's 32px footprint
\* and its label starts at anchor x + 32 + 10 on the midline y + 16, where
\* it starts when the logo is there.
C7_BadgeLayoutFixed ==
    LET ops == PartOps("platform")
        x == style.padding
        y == style.height - style.padding - 32
        accent == PlatformBranding(review.platform, review.platform_username).accent_color
    IN  pc \in {"platform", "done"} /\ review.platform # "none" /\ LogoUnavailable =>
            /\ Len(ops) = 2
            /\ ops[1].op = "ellipse"
            /\ ops[1].fill = accent
            /\ ops[1].box[1] = x /\ ops[1].box[2] = y
            /\ BoxSize(ops[1].box) = <<32, 32>>
            /\ ops[2].op = "text"
            /\ ops[2].at = <<x + 32 + 10, y + 16>>

\* C8: a cover reference that fails to load or to decode raises nothing from
\* generate(), which goes on to return the card, and the cover slot has the placeholder of
\* the case without a cover, at (padding, padding) and of exactly
\* cover_width by int(cover_width * 1.5).
C8_PlaceholderExact ==
    LET ops == PartOps("cover")
    IN  /\ review.cover_image # None /\ CoverUnavailable /\ ~InvalidInput =>
               /\ pc # "raised"
               /\ returned.kind # "raise"
               /\ pc = "done" => returned.kind = "image"
        /\ pc \in {"cover", "title", "score", "review", "platform", "done"}
           /\ review.cover_image # None /\ CoverUnavailable =>
               /\ ops = Placeholder(style)
               /\ ops[1].op = "rounded_rectangle"
               /\ ops[1].box[1] = style.padding /\ ops[1].box[2] = style.padding
               /\ BoxSize(ops[1].box) = <<style.cover_width, (3 * style.cover_width) \div 2>>

\* C9: generate() raises for invalid review data only: with valid data every
\* combination of a failing cover and a failing logo lets it run on to
\* return the card.
C9_OnlyValidationFails ==
    ~InvalidInput =>
        /\ pc # "raised"
        /\ returned.kind # "raise"
        /\ pc \in {"platform", "done"} => Len(PartOps("cover")) >= 1
        /\ pc = "done" => returned.kind = "image" /\ returned.card = card

C9_Witness ==
    /\ pc = "done"
    /\ returned.kind = "image"
    /\ review.cover_image # None /\ cover_file.exists /\ ~cover_file.decodable
    /\ review.platform # "none" /\ logo_file.exists /\ ~logo_file.decodable

\* The layers of the card, bottom to top.
Layers == <<"card", "cover", "title", "score", "review", "platform">>

Layer(part) == CHOOSE i \in 1..Len(Layers) : Layers[i] = part

\* The layers that are complete when pc stands at a section.
LayersAt(section) ==
    CASE section \in {"start", "validated", "raised"} -> 0
      [] section = "card" -> 1
      [] section = "cover" -> 2
      [] section = "title" -> 3
      [] section = "score" -> 4
      [] section = "review" -> 5
      [] section \in {"platform", "done"} -> 6

\* C12: a render validates, creates the canvas with its background, and then
\* draws cover or placeholder, title, score, review text and badge in that
\* order: nothing is drawn before validation, no layer is drawn before a
\* lower one or after a higher one, and none is drawn twice.
C12_FixedOrder ==
    /\ \A i, j \in 1..Len(card) : i < j => Layer(card[i].part) <= Layer(card[j].part)
    /\ \A i \in 1..Len(card) : Layer(card[i].part) <= LayersAt(pc)
    /\ \A k \in 1..5 : k <= LayersAt(pc) => PartOps(Layers[k]) # <<>>
    /\ LayersAt(pc) = 6 => (PartOps("platform") # <<>> <=> review.platform # "none")
    /\ LayersAt(pc) >= 1 =>
          /\ ~InvalidInput
          /\ PartOps("card") = <<card[1], card[2]>>
          /\ card[1].op = "new" /\ card[2].op = "rounded_rectangle"
    /\ Len(PartOps("cover")) <= 2
    /\ Len(PartOps("title")) <= 2
    /\ Len(PartOps("score")) <= 1
    /\ Len(PartOps("review")) <= max_review_lines
    /\ Len(PartOps("platform")) <= 2

C12_Witness ==
    /\ pc = "done"
    /\ \A k \in 1..6 : PartOps(Layers[k]) # <<>>
    /\ Len(PartOps("title")) = 2
    /\ Len(PartOps("review")) = max_review_lines

WrappedTitle == _wrap_text(review.title, style.title_font, text_width(style))

WrappedBody == _wrap_text(review.review_text, style.review_font, text_width(style))

\* C13: the title is drawn as the first two of its wrapped lines at most,
\* each as wrapped, line i (from 0) at y = padding + i * (title_font_size + 5);
\* further lines are dropped and the second line gets no ellipsis.
C13_TitleLines ==
    LET ops == PartOps("title")
    IN  LayersAt(pc) >= 3 =>
            /\ Len(ops) = (IF Len(WrappedTitle) < 2 THEN Len(WrappedTitle) ELSE 2)
            /\ \A i \in 1..Len(ops) :
                  /\ ops[i].text = WrappedTitle[i]
                  /\ ops[i].at = <<style.padding + style.cover_width + style.padding,
                                   style.padding + (i - 1) * (style.title_font_size + 5)>>

C13_Witness ==
    /\ pc = "done"
    /\ Len(WrappedTitle) = 3
    /\ Len(PartOps("title")) = 2
    /\ ~EndsWith(PartOps("title")[2].text, Dots)

\* The baseline of a text drawn at y with its ascender at y (anchor "la").
Baseline(y, ascent) == y + ascent

\* C14 as stated: the score label starts 15px below the baseline of the last
\* drawn title line, for titles of one line and of two.
C14_ScoreBelowBaseline ==
    LET titles == PartOps("title")
        last == titles[Len(titles)]
    IN  LayersAt(pc) >= 4 =>
            PartOps("score")[1].at[2] = Baseline(last.at[2], style.title_ascent) + 15

\* C14: the score label starts 15px below the place the next title line
\* would have, which is title_font_size + 20 below the top of the last drawn
\* title line: at y = padding + n * (title_font_size + 5) + 15 after n = 1 or
\* n = 2 title lines.
C14_ScoreBelowTitleBlock ==
    LET titles == PartOps("title")
        n == Len(titles)
    IN  LayersAt(pc) >= 4 =>
            /\ n \in {1, 2}
            /\ PartOps("score")[1].at[2]
                 = style.padding + n * (style.title_font_size + 5) + 15
            /\ PartOps("score")[1].at[2]
                 = titles[n].at[2] + style.title_font_size + 20

C14_Witness ==
    /\ pc = "done"
    /\ Len(PartOps("title")) = 2
    /\ PartOps("score")[1].at[2] > Baseline(PartOps("title")[2].at[2], style.title_ascent) + 15

\* C16: a review text of eight wrapped lines or fewer is drawn whole, line
\* after line as wrapped, review_font_size + 8 apart; of a longer one the
\* first seven lines are drawn as wrapped and the eighth with its last three
\* characters replaced by "...", or as "..." alone when it has three
\* characters or fewer.
C16_BodyLines ==
    LET ops == PartOps("review")
        n == Len(WrappedBody)
    IN  LayersAt(pc) >= 5 =>
            /\ Len(ops) = (IF n <= 8 THEN n ELSE 8)
            /\ \A i \in 1..Len(ops) :
                  /\ i < 8 \/ n <= 8 => ops[i].text = WrappedBody[i]
                  /\ i > 1 => ops[i].at[2] = ops[i - 1].at[2] + style.review_font_size + 8
                  /\ ops[i].at[1] = ops[1].at[1]
            /\ n > 8 =>
                  ops[8].text = (IF Len(WrappedBody[8]) <= 3 THEN Dots
                                 ELSE SubSeq(WrappedBody[8], 1, Len(WrappedBody[8]) - 3)
                                      \o Dots)

C16_Witness ==
    /\ pc = "done"
    /\ Len(WrappedBody) > 8
    /\ Len(WrappedBody[8]) > 3
    /\ Len(PartOps("review")[8].text) = Len(WrappedBody[8])

(***************************************************************************)
(* Properties of repeated renders.                                         *)
(***************************************************************************)
\* C11: a render of the same ReviewData with the same CardStyle returns the
\* canvas every earlier render returned: the same draw operations with the
\* same arguments, in the same order.
C11_Deterministic ==
    pc = "done" =>
        \A i \in 1..Len(history) :
            /\ history[i].kind = "image"
            /\ returned.kind = "image"
            /\ history[i].card = returned.card

C11_Witness ==
    /\ pc = "done"
    /\ Len(history) = 1
    /\ branding_logo_path # None
    /\ review.platform # "none"
    /\ Len(returned.card) > 4

\* C15: no step of generate() changes the ReviewData, the CardStyle or a
\* field of the generator; a render writes the canvas it allocated itself,
\* which starts with nothing of an earlier render, and the file it is asked
\* to save.
C15_Frame ==
    /\ [](pc = "card" =>
            /\ Len(card) = 2
            /\ card[1].op = "new"
            /\ \A i \in 1..Len(history) : history[i].card # card)
    /\ [][pc' # pc =>
            /\ review' = review
            /\ style' = style
            /\ branding_logo_path' = branding_logo_path
            /\ (pc' # "start" => history' = history)
            /\ saved' \subseteq saved \cup {output_path}]_vars

C15_Witness ==
    /\ pc = "card"
    /\ Len(history) = 1
    /\ branding_logo_path # None
    /\ Len(history[1].card) > Len(card)

(***************************************************************************)
(* The text wrapper applied to every text, font and width of the bounds.   *)
(***************************************************************************)
InitWrap ==
    /\ IdleGen
    /\ ui = NoUI
    /\ \E text \in TextsUpTo(MaxTextLen), font \in Fonts, max_width \in 0..MaxWidth :
         call = [fn |-> "_wrap_text", text |-> text, font |-> font,
                 max_width |-> max_width, done |-> FALSE, ret |-> <<>>]

WrapText ==
    /\ call.fn = "_wrap_text"
    /\ ~call.done
    /\ call' = [call EXCEPT !.done = TRUE,
                            !.ret = _wrap_text(call.text, call.font, call.max_width)]
    /\ UNCHANGED <<genVars, ui>>

NextWrap == WrapText

SpecWrap == InitWrap /\ [][NextWrap]_vars

Wrapped == call.fn = "_wrap_text" /\ call.done

\* The words of a line, as the wrapper joined them.
WordsOf(line) == split(line)

(***************************************************************************)
(* C4: every line returned by _wrap_text measures at most max_width,       *)
(* except a line that consists of exactly one word.                        *)
(***************************************************************************)
C4_LinesFit ==
    Wrapped =>
        \A k \in 1..Len(call.ret) :
            \/ getbbox(call.font, call.ret[k]) <= call.max_width
            \/ Len(WordsOf(call.ret[k])) = 1

\* A wrap that produced an overflowing one-word line and a line of several words.
C4_Witness ==
    /\ Wrapped
    /\ \E k \in 1..Len(call.ret) :
         /\ Len(WordsOf(call.ret[k])) = 1
         /\ getbbox(call.font, call.ret[k]) > call.max_width
    /\ \E k \in 1..Len(call.ret) : Len(WordsOf(call.ret[k])) > 1

\* C17: the wrapper is greedy: a line followed by another line, joined by
\* one space with the first word of that next line, measures more than
\* max_width, so that a line is broken only before a word that does not fit.
C17_Greedy ==
    Wrapped =>
        \A k \in 1..(Len(call.ret) - 1) :
            getbbox(call.font, call.ret[k] \o <<" ">> \o WordsOf(call.ret[k + 1])[1])
                > call.max_width

\* Three lines, one of them of several words.
C17_Witness ==
    /\ Wrapped
    /\ Len(call.ret) >= 3
    /\ \E k \in 1..(Len(call.ret) - 1) : Len(WordsOf(call.ret[k])) > 1

\* C18: the wrapper neither loses nor splits, reorders or repeats a word:
\* the lines joined by single spaces are the words of the text joined by
\* single spaces.  No line is empty, a word wider than max_width is alone
\* and whole on its line, and a text without a word gives no line.
C18_WordsKept ==
    Wrapped =>
        /\ join(call.ret) = join(split(call.text))
        /\ \A k \in 1..Len(call.ret) :
              /\ call.ret[k] # <<>>
              /\ \A w \in 1..Len(WordsOf(call.ret[k])) :
                    getbbox(call.font, WordsOf(call.ret[k])[w]) > call.max_width
                        => call.ret[k] = WordsOf(call.ret[k])[w]
        /\ \A w \in 1..Len(split(call.text)) :
              getbbox(call.font, split(call.text)[w]) > call.max_width
                  => \E k \in 1..Len(call.ret) : call.ret[k] = split(call.text)[w]
        /\ (\A i \in 1..Len(call.text) : call.text[i] \in Whitespace) => call.ret = <<>>

\* A wide word between two narrow ones, and a text of spaces only.
C18_Witness ==
    /\ Wrapped
    /\ Len(call.ret) = 3
    /\ getbbox(call.font, call.ret[2]) > call.max_width
    /\ getbbox(call.font, call.ret[1]) <= call.max_width
    /\ Len(call.text) > Len(join(call.ret))

(***************************************************************************)
(* C5 as stated: a text that measures less than max_width wraps to exactly *)
(* one line, the text with its leading and trailing whitespace trimmed,    *)
(* runs of several whitespace characters between words included.           *)
(***************************************************************************)
C5_ShortTextIsTrimmedInput ==
    (Wrapped /\ getbbox(call.font, call.text) < call.max_width)
        => call.ret = <<strip(call.text)>>

\* The words of the text are separated by single spaces, and there is one.
SingleSpaced(text) == split(text) # <<>> /\ strip(text) = join(split(text))

(***************************************************************************)
(* C5 as amended: a text that has at least one word, whose words are       *)
(* separated by single space characters and that measures less than        *)
(* max_width wraps to exactly one line, the trimmed text; with a run of    *)
(* whitespace between words the one line is the words joined by single     *)
(* spaces when that still fits, and a text without words gives no line.    *)
(***************************************************************************)
C5_ShortSingleSpacedText ==
    (Wrapped /\ getbbox(call.font, call.text) < call.max_width)
        => /\ SingleSpaced(call.text) => call.ret = <<strip(call.text)>>
           /\ split(call.text) = <<>> => call.ret = <<>>
           /\ getbbox(call.font, join(split(call.text))) <= call.max_width
                  /\ split(call.text) # <<>>
                  => call.ret = <<join(split(call.text))>>

\* A short text of two words with whitespace before and after it, wrapped
\* to its trimmed form.
C5_Witness ==
    /\ Wrapped
    /\ getbbox(call.font, call.text) < call.max_width
    /\ SingleSpaced(call.text)
    /\ Len(split(call.text)) = 2
    /\ strip(call.text) # call.text
    /\ call.ret = <<strip(call.text)>>

(***************************************************************************)
(* The score classifier applied to every score of the grid in [-1, 11].    *)
(***************************************************************************)
InitScore ==
    /\ IdleGen
    /\ ui = NoUI
    /\ \E score \in (-ScoreDen)..(11 * ScoreDen) :
         call = [fn |-> "score", score |-> score, formatted |-> FALSE, label |-> <<>>,
                 colored |-> FALSE, color |-> <<>>]

FormatScore ==
    /\ call.fn = "score"
    /\ ~call.formatted
    /\ call' = [call EXCEPT !.formatted = TRUE, !.label = _format_score(call.score)]
    /\ UNCHANGED <<genVars, ui>>

GetScoreColor ==
    /\ call.fn = "score"
    /\ ~call.colored
    /\ call' = [call EXCEPT !.colored = TRUE, !.color = _get_score_color(call.score)]
    /\ UNCHANGED <<genVars, ui>>

NextScore == FormatScore \/ GetScoreColor

SpecScore == InitScore /\ [][NextScore]_vars

InRange(score) == 0 <= score /\ score <= 10 * ScoreDen

\* The number a string of decimal digits denotes; -1 when it is no such string.
RECURSIVE DecodeNat(_)
DecodeNat(s) ==
    IF s = <<>> THEN -1
    ELSE LET d == IF \E k \in 1..10 : DigitChar[k] = s[Len(s)]
                  THEN (CHOOSE k \in 1..10 : DigitChar[k] = s[Len(s)]) - 1
                  ELSE -1
         IN  IF d = -1 THEN -1
             ELSE IF Len(s) = 1 THEN d
             ELSE LET hi == DecodeNat(SubSeq(s, 1, Len(s) - 1))
                  IN  IF hi = -1 THEN -1 ELSE 10 * hi + d

\* label is number followed by "/10"; the number part.
NumberPart(label) == SubSeq(label, 1, Len(label) - 3)

(***************************************************************************)
(* C1: for a score in [0,10] the label is the integer followed by "/10"    *)
(* when the score is an exact integer, and otherwise the score to exactly  *)
(* one fractional digit (the nearest tenth) followed by "/10".             *)
(***************************************************************************)
C1_ScoreLabel ==
    (call.fn = "score" /\ call.formatted /\ InRange(call.score)) =>
        LET num == NumberPart(call.label)
            n == Len(num)
        IN  /\ EndsWith(call.label, <<"/", "1", "0">>)
            /\ IF call.score % ScoreDen = 0
               THEN DecodeNat(num) * ScoreDen = call.score
               ELSE /\ n >= 3
                    /\ num[n - 1] = "."
                    /\ DecodeNat(SubSeq(num, 1, n - 2)) >= 0
                    /\ DecodeNat(<<num[n]>>) >= 0
                    /\ LET tenths == 10 * DecodeNat(SubSeq(num, 1, n - 2))
                                        + DecodeNat(<<num[n]>>)
                       IN  2 * Abs(tenths * ScoreDen - 10 * call.score) <= ScoreDen

\* A score just below 4 that is no integer is labelled "4.0/10", and the
\* score 10 is labelled "10/10".
C1_Witness ==
    /\ call.fn = "score"
    /\ call.formatted
    /\ \/ /\ call.score < 4 * ScoreDen
          /\ call.label = <<"4", ".", "0", "/", "1", "0">>
       \/ /\ call.score = 10 * ScoreDen
          /\ call.label = <<"1", "0", "/", "1", "0">>

(***************************************************************************)
(* C2: for a score in [0,10] the colour is Good (green) iff score >= 8,    *)
(* Okay (yellow) iff 6 <= score < 8, Poor (orange) iff 4 <= score < 6 and  *)
(* Bad (red) iff score < 4: the boundaries 8, 6 and 4 fall in the higher   *)
(* bucket and every score gets exactly one bucket.                         *)
(***************************************************************************)
C2_ScoreBuckets ==
    (call.fn = "score" /\ call.colored /\ InRange(call.score)) =>
        LET s == call.score
            c == call.color
        IN  /\ (c = <<34, 197, 94>>) <=> (s >= 8 * ScoreDen)
            /\ (c = <<234, 179, 8>>) <=> (6 * ScoreDen <= s /\ s < 8 * ScoreDen)
            /\ (c = <<249, 115, 22>>) <=> (4 * ScoreDen <= s /\ s < 6 * ScoreDen)
            /\ (c = <<239, 68, 68>>) <=> (s < 4 * ScoreDen)
            /\ Cardinality({b \in {<<34, 197, 94>>, <<234, 179, 8>>,
                                   <<249, 115, 22>>, <<239, 68, 68>>} : b = c}) = 1

\* The boundary score 8 coloured green.
C2_Witness ==
    /\ call.fn = "score"
    /\ call.colored
    /\ call.score = 8 * ScoreDen
    /\ call.color = <<34, 197, 94>>

(***************************************************************************)
(* The cover normalizer applied to every source and target size of the     *)
(* bounds.                                                                 *)
(***************************************************************************)
InitCover ==
    /\ IdleGen
    /\ ui = NoUI
    /\ \E w \in 1..MaxDim, h \in 1..MaxDim, tw \in 1..MaxDim, th \in 1..MaxDim :
         call = [fn |-> "cover", cover |-> [width |-> w, height |-> h],
                 target_width |-> tw, target_height |-> th, done |-> FALSE,
                 ret |-> [raised |-> FALSE]]

CreateCover ==
    /\ call.fn = "cover"
    /\ ~call.done
    /\ call' = [call EXCEPT
                   !.done = TRUE,
                   !.ret = _create_cover_with_rounded_corners(
                               call.cover, call.target_width, call.target_height, 15)]
    /\ UNCHANGED <<genVars, ui>>

NextCover == CreateCover

SpecCover == InitCover /\ [][NextCover]_vars

\* The source is wider than the target: its aspect ratio is the greater.
SourceWider ==
    call.cover.width * call.target_height > call.target_width * call.cover.height

(***************************************************************************)
(* C10: for every source of positive size the normalizer returns a tile of *)
(* exactly target_width x target_height.  When the source aspect ratio is  *)
(* greater than the target ratio the scaled height is target_height and    *)
(* the width is cropped about its centre; otherwise the scaled width is    *)
(* target_width and the height is cropped about its centre.                *)
(***************************************************************************)
C10_CoverTile ==
    (call.fn = "cover" /\ call.done) =>
        LET r == call.ret
            tw == call.target_width
            th == call.target_height
        IN  /\ ~r.raised
            /\ r.size = <<tw, th>>
            /\ r.cropped = <<tw, th>>
            /\ IF SourceWider
               THEN /\ r.resized[2] = th
                    /\ r.box[2] = 0 /\ r.box[4] = th
                    /\ Abs(r.box[1] - (r.resized[1] - r.box[3])) <= 1
               ELSE /\ r.resized[1] = tw
                    /\ r.box[1] = 0 /\ r.box[3] = tw
                    /\ Abs(r.box[2] - (r.resized[2] - r.box[4])) <= 1

\* A source wider than the target, scaled to the target height and with
\* columns cropped on both sides.
C10_Witness ==
    /\ call.fn = "cover"
    /\ call.done
    /\ SourceWider
    /\ call.ret.resized[2] = call.target_height
    /\ call.ret.box[1] > 0
    /\ call.ret.resized[1] > call.ret.box[3]
    /\ call.ret.size = <<call.target_width, call.target_height>>

\* C19: for every source and target of positive size the scaled size covers
\* the target, new_width >= target_width and new_height >= target_height, so
\* that the crop offsets are not negative, the crop box lies inside the
\* scaled image and the margins cut off on opposite sides differ by at most
\* one pixel.
C19_ScaledCoversTarget ==
    (call.fn = "cover" /\ call.done) =>
        LET r == call.ret
            tw == call.target_width
            th == call.target_height
        IN  /\ ~r.raised
            /\ r.resized[1] >= tw /\ r.resized[2] >= th
            /\ r.box[1] >= 0 /\ r.box[2] >= 0
            /\ r.box[3] <= r.resized[1] /\ r.box[4] <= r.resized[2]
            /\ Abs(r.box[1] - (r.resized[1] - r.box[3])) <= 1
            /\ Abs(r.box[2] - (r.resized[2] - r.box[4])) <= 1

(***************************************************************************)
(* ReviewCardApp: the fields and widgets the Generate and Save handlers    *)
(* read and write, the user's edits, and the two buttons.                  *)
(***************************************************************************)
THEMED_PALETTES == {"Ramadan"}

\* Two of the COLOR_PALETTES, one of them themed.
Palettes == {"Bakuretsu Dark", "Ramadan"}

\* The values of the platform menu, and the variable's initial value.
PlatformValues == {"None", "Backloggd", "Letterboxd"}

\* str.lower() of the strings the variables of the window hold.
lower(v) ==
    CASE v = "None" -> "none"
      [] v = "Backloggd" -> "backloggd"
      [] v = "Letterboxd" -> "letterboxd"
      [] v = "Ramadan" -> "ramadan"
      [] v = "Bakuretsu Dark" -> "bakuretsu dark"
      [] OTHER -> v

\* The keyword parameters of CardStyle.__init__.
CardStyleParams ==
    {"width", "height", "background_color", "primary_color", "secondary_color",
     "accent_color", "title_font_size", "score_font_size", "review_font_size",
     "platform_font_size", "font_path", "bold_font_path", "padding", "cover_width",
     "corner_radius"}

\* A call of CardStyle(**kwargs): a keyword the signature lacks is a TypeError.
CardStyle_init(kwargs) ==
    IF DOMAIN kwargs \subseteq CardStyleParams
    THEN [kind |-> "ok", exc |-> "", style |-> kwargs]
    ELSE [kind |-> "raise", exc |-> "TypeError", style |-> kwargs]

\* ReviewCardApp._get_style, the size entries holding their initial texts.
_get_style(u) ==
    CardStyle_init(
        [width |-> 1200, height |-> 675,
         background_color |-> <<u.palette, "background">>,
         primary_color |-> <<u.palette, "primary">>,
         secondary_color |-> <<u.palette, "secondary">>,
         accent_color |-> <<u.palette, "accent">>,
         corner_radius |-> 20,
         theme |-> IF u.palette \in THEMED_PALETTES THEN lower(u.palette) ELSE None])

\* ContentType(value) and Platform(value): a value of the enum, or ValueError.
ContentType(v) ==
    IF v \in {"game", "movie"} THEN [kind |-> "ok", value |-> v]
    ELSE [kind |-> "raise", value |-> v]

Platform(v) ==
    IF v \in {"none", "backloggd", "letterboxd"} THEN [kind |-> "ok", value |-> v]
    ELSE [kind |-> "raise", value |-> v]

\* create_review_card: the enums, the ReviewData and generate(), which
\* raises for invalid data and returns the card otherwise.
create_review_card(title, score, review_text, content_type, cover_image, platform, platform_username, st) ==
    IF ContentType(lower(content_type)).kind = "raise"
       \/ Platform(lower(platform)).kind = "raise"
    THEN [kind |-> "raise", exc |-> "ValueError"]
    ELSE LET r == [title |-> title, score |-> score, review_text |-> review_text,
                   content_type |-> lower(content_type), cover_image |-> cover_image,
                   platform |-> lower(platform),
                   platform_username |-> platform_username]
         IN  IF validate(r).kind = "raise"
             THEN [kind |-> "raise", exc |-> "ValueError"]
             ELSE [kind |-> "image", review |-> r, style |-> st]

\* ReviewCardApp._validate_inputs
_validate_inputs(u) ==
    IF strip(u.title) = <<>> THEN FALSE
    ELSE IF strip(u.review_text) = <<>> THEN FALSE
    ELSE TRUE

NoImage == [kind |-> "none"]

UITitles == {<<>>, <<" ">>, <<"a">>, <<" ", "a">>}

\* The text box ends every text with a newline.
UIReviews == {<<"\n">>, <<"a", "\n">>}

\* The window as ReviewCardApp.__init__ leaves it.
InitUI ==
    /\ IdleGen
    /\ call = NoCall
    /\ ui = [title |-> <<>>, review_text |-> <<"\n">>, score |-> 7 * ScoreDen,
             content_type |-> "game", platform |-> "none", username |-> <<>>,
             cover |-> <<>>, palette |-> "Bakuretsu Dark",
             generated_card |-> NoImage, status |-> "Ready",
             save_btn |-> "disabled", generate_btn |-> "normal",
             dialog |-> "none", handler |-> "none", last |-> "none", files |-> {},
             slider_value |-> 7 * ScoreDen, score_label |-> <<"7", ".", "0">>,
             score_label_color |-> <<>>]

\* The user types into the title entry or the review box, or chooses a
\* palette, a platform or a content type.
EditTitle ==
    /\ \E t \in UITitles : t # ui.title /\ ui' = [ui EXCEPT !.last = "edit", !.title = t]
    /\ UNCHANGED <<genVars, call>>

EditReview ==
    /\ \E t \in UIReviews : t # ui.review_text /\ ui' = [ui EXCEPT !.last = "edit", !.review_text = t]
    /\ UNCHANGED <<genVars, call>>

ChoosePalette ==
    /\ \E name \in Palettes : name # ui.palette /\ ui' = [ui EXCEPT !.last = "edit", !.palette = name]
    /\ UNCHANGED <<genVars, call>>

ChoosePlatform ==
    /\ \E v \in PlatformValues : v # ui.platform /\ ui' = [ui EXCEPT !.last = "edit", !.platform = v]
    /\ UNCHANGED <<genVars, call>>

ChooseContentType ==
    /\ \E v \in {"game", "movie"} :
          v # ui.content_type /\ ui' = [ui EXCEPT !.last = "edit", !.content_type = v]
    /\ UNCHANGED <<genVars, call>>

\* round(x) of Python for x = num / den >= 0: the nearest integer, a tie
\* going to the even one.
round(num, den) ==
    LET q == num \div den
        r == num % den
    IN  IF 2 * r > den \/ (2 * r = den /\ q % 2 = 1) THEN q + 1 ELSE q

\* Line 449: round(value * 2) / 2
Snap(value) == (round(2 * value, ScoreDen) * ScoreDen) \div 2

\* Line 451: the text of the score label.
ScoreLabelText(score) ==
    IF score # IntOf(score) * ScoreDen THEN Fixed1Text(score)
    ELSE IntText(IntOf(score)) \o <<".", "0">>

\* The colours of lines 453-460 with the first bound exclusive.
ScoreLabelColorStrict(score) ==
    IF score > 8 * ScoreDen THEN <<"#", "2", "2", "c", "5", "5", "e">>
    ELSE IF score >= 6 * ScoreDen THEN <<"#", "e", "a", "b", "3", "0", "8">>
    ELSE IF score >= 4 * ScoreDen THEN <<"#", "f", "9", "7", "3", "1", "6">>
    ELSE <<"#", "e", "f", "4", "4", "4", "4">>

\* Lines 453-460: the colour of the score label.
ScoreLabelColor(score) ==
    IF score >= 8 * ScoreDen THEN <<"#", "2", "2", "c", "5", "5", "e">>
    ELSE IF score >= 6 * ScoreDen THEN <<"#", "e", "a", "b", "3", "0", "8">>
    ELSE IF score >= 4 * ScoreDen THEN <<"#", "f", "9", "7", "3", "1", "6">>
    ELSE <<"#", "e", "f", "4", "4", "4", "4">>

HexDigits ==
    <<"0", "1", "2", "3", "4", "5", "6", "7", "8", "9", "a", "b", "c", "d", "e", "f">>

\* int(c, 16) of one digit.
HexValue(c) == (CHOOSE i \in 1..Len(HexDigits) : HexDigits[i] = c) - 1

\* hex_to_rgb: the "#" taken off, then three numbers of two digits.
hex_to_rgb(hex_color) ==
    LET RECURSIVE NoHash(_)
        NoHash(h) == IF h # <<>> /\ Head(h) = "#" THEN NoHash(Tail(h)) ELSE h
        h == NoHash(hex_color)
    IN  << 16 * HexValue(h[1]) + HexValue(h[2]),
           16 * HexValue(h[3]) + HexValue(h[4]),
           16 * HexValue(h[5]) + HexValue(h[6]) >>

\* The slider moved to a value of [0, 10]: _update_score_label(value).
MoveSlider ==
    /\ \E value \in 0..(10 * ScoreDen) :
          ui' = [ui EXCEPT !.slider_value = value,
                           !.score = Snap(value),
                           !.score_label = ScoreLabelText(Snap(value)),
                           !.score_label_color = ScoreLabelColor(Snap(value)),
                           !.last = "slider"]
    /\ UNCHANGED <<genVars, call>>

NextSlider == MoveSlider

SpecSlider == InitUI /\ [][NextSlider]_vars

\* A click on Generate Card, up to self.update() of line 538: the click does
\* nothing on a disabled button, and the handler returns after the message
\* box when the inputs are rejected.
GenerateBegin ==
    /\ ui.handler = "none"
    /\ ui' = IF ui.generate_btn = "disabled"
             THEN [ui EXCEPT !.last = "generate ignored"]
             ELSE IF ~_validate_inputs(ui)
             THEN [ui EXCEPT !.dialog = "Validation Error", !.last = "generate rejected"]
             ELSE [ui EXCEPT !.status = "Generating...", !.generate_btn = "disabled",
                             !.handler = "generating", !.last = "generate begun"]
    /\ UNCHANGED <<genVars, call>>

\* What the try block of lines 540-570 comes to: the card, or the exception.
GenerateOutcome(u) ==
    LET st == _get_style(u)
    IN  IF st.kind = "raise" THEN [kind |-> "raise", exc |-> st.exc]
        ELSE create_review_card(strip(u.title), u.score, strip(u.review_text),
                                u.content_type,
                                IF strip(u.cover) = <<>> THEN None ELSE strip(u.cover),
                                lower(u.platform), strip(u.username), st.style)

\* A handler without the finally clause: the button is left as it is.
FinallyLeftOut(u) == u

\* The finally clause of lines 575-576.
Finally(u) == [u EXCEPT !.generate_btn = "normal"]

\* _generate_card from line 540 on: try, except and finally.
GenerateFinish ==
    /\ ui.handler = "generating"
    /\ LET out == GenerateOutcome(ui)
       IN  ui' = IF out.kind = "image"
                 THEN Finally([ui EXCEPT !.generated_card = out,
                                        !.status = "Card generated successfully!",
                                        !.save_btn = "normal",
                                        !.handler = "none", !.last = "generate"])
                 ELSE Finally([ui EXCEPT !.status = "Error",
                                        !.dialog = "Generation Error",
                                        !.handler = "none", !.last = "generate"])
    /\ UNCHANGED <<genVars, call>>

\* A click on Save Image: nothing on a disabled button, else _save_card with
\* the file dialog cancelled, the file written, or the write failing.
SaveClick ==
    /\ \E filepath \in {"", "card.png"}, written \in BOOLEAN :
          ui' = IF ui.save_btn = "disabled"
                THEN [ui EXCEPT !.last = "save ignored"]
                ELSE IF ui.generated_card.kind = "none"
                THEN [ui EXCEPT !.dialog = "No Card", !.last = "save"]
                ELSE IF filepath = "" THEN [ui EXCEPT !.last = "save"]
                ELSE IF written
                THEN [ui EXCEPT !.files = @ \cup {filepath}, !.status = "Saved",
                                !.dialog = "Success", !.last = "save"]
                ELSE [ui EXCEPT !.dialog = "Save Error", !.last = "save"]
    /\ UNCHANGED <<genVars, call>>

NextUI ==
    \/ EditTitle
    \/ EditReview
    \/ ChoosePalette
    \/ ChoosePlatform
    \/ ChooseContentType
    \/ GenerateBegin
    \/ GenerateFinish
    \/ SaveClick

SpecUI == InitUI /\ [][NextUI]_vars

\* C20: a click on Generate with a title and a review text that are not
\* blank ends with generated_card set, the status "Card generated
\* successfully!" and the Save button enabled.
C20_GenerateSucceeds ==
    ui.last = "generate" /\ ~Blank(ui.title) /\ ~Blank(ui.review_text) =>
        /\ ui.generated_card.kind = "image"
        /\ ui.status = "Card generated successfully!"
        /\ ui.save_btn = "normal"

\* C21: whatever Generate and Save clicks came before, the Save button is
\* enabled only while generated_card holds a card, which a generation that
\* succeeded has put there; and whenever _generate_card has returned, after
\* a success, a rejected input or an exception, the Generate button is in
\* state "normal".
C21_Buttons ==
    /\ ui.save_btn = "normal" =>
          /\ ui.generated_card.kind = "image"
          /\ validate(ui.generated_card.review).kind = "ok"
    /\ ui.save_btn \in {"normal", "disabled"}
    /\ ui.handler = "none" => ui.generate_btn = "normal"
    /\ ui.last \in {"generate", "generate rejected"} => ui.generate_btn = "normal"
    /\ ui.generate_btn = "disabled" => ui.handler = "generating"

\* Generate clicked and ended by an exception, and Save clicked after it.
C21_Witness ==
    /\ ui.last = "save ignored"
    /\ ui.status = "Error"
    /\ ui.dialog = "Generation Error"
    /\ ui.generate_btn = "normal"
    /\ ui.handler = "none"
    /\ ~Blank(ui.title)

\* C22: for every slider value of [0, 10] the score of the window is a
\* multiple of 0.5 in [0, 10] and none is nearer to the value; the colour of
\* the score label is the RGB colour that _get_score_color gives this score,
\* which is the score the Generate handler hands to the card.
C22_SliderScore ==
    ui.last = "slider" =>
        /\ 0 <= ui.score /\ ui.score <= 10 * ScoreDen
        /\ \E k \in 0..20 : 2 * ui.score = k * ScoreDen
        /\ \A k \in 0..20 :
              2 * Abs(ui.score - ui.slider_value)
                  <= Abs(k * ScoreDen - 2 * ui.slider_value)
        /\ hex_to_rgb(ui.score_label_color) = _get_score_color(ui.score)

\* A value half way between two multiples of 0.5, snapped to 8.
C22_Witness ==
    /\ ui.last = "slider"
    /\ 4 * ui.slider_value = 31 * ScoreDen
    /\ ui.score = 8 * ScoreDen
    /\ ui.score_label = <<"8", ".", "0">>
    /\ hex_to_rgb(ui.score_label_color) = <<34, 197, 94>>

====
